---- MODULE Spec2Model ----
(***************************************************************************)
(* Model of the cx toolbelt commands:                                      *)
(*   stacks list   (src/stacks.go      listStacks, printStackList)         *)
(*   formations fetch / deploy, stencils add (src/formation.go)            *)
(*   stacks ssl add (src/stacks-ssl.go)                                    *)
(* One run of the program executes one command; cmd says which.            *)
(* Go strings that the code compares or lower-cases are sequences of byte  *)
(* codes; file paths are sequences of path components.                     *)
(***************************************************************************)
EXTENDS Integers, Sequences, FiniteSets, TLC

VARIABLES
    cmd,        \* the command this run executes
    pc,         \* position of the main goroutine in the command's handler
    fatalMsg,   \* argument of the printFatal call that ended the run, or NoMsg
    out,        \* lines printed on stdout, in order
    \* ---- stacks list ----
    names,      \* c.Args(): the names given on the command line
    environment,\* --environment
    spawnIdx,   \* how many names the fan-out loop has handled
    gor,        \* per name: state of its fetch goroutine
    stackch,    \* buffered channel of *cloud66.Stack (Nil for an empty name)
    errch,      \* buffered channel of error
    errLog,     \* every error ever sent on errch, in send order
    recvd,      \* iterations of the join loop completed
    stacks,     \* the local slice `stacks`
    rows,       \* rows emitted by listStack, in order
    \* ---- formations (fetch, deploy, stencils add) ----
    formationName, \* --formation
    server,     \* the formations of the stack on the server
    formations, \* what client.Formations returned
    formation,  \* the formation the handler selected (nil until found)
    \* ---- formations fetch ----
    outDir,     \* --outdir
    overwrite,  \* --overwrite
    fs0,        \* files under <outdir>/stencils when the command starts
    fs,         \* files under <outdir>/stencils now: name -> content
    ffIdx,      \* stencils the write loop has handled
    asks,       \* the per-file questions asked so far, with the answers
    \* ---- stencils add ----
    stencilFile,    \* --stencil, a path
    btrUuid,        \* what c.String("base-template") returns
    readable,       \* whether the file at stencilFile can be read
    foundFormation, \* the local foundFormation
    addCalls,       \* the client.AddStencils requests sent, in order
    \* ---- formations deploy ----
    snapshotUID,    \* --snapshot-uid, then the local snapshotUID
    logLevel,       \* --log-level
    level,          \* the logrus level put in the context
    numCPU,         \* runtime.NumCPU()
    workflowReq,    \* the client.GetWorkflow requests sent
    concurrency,    \* options.Concurrency, NoOptions before options is built
    loadFailed,     \* LoadWorkflowFromReader returned a non-nil error
    runState,       \* "no", "returned" or "panicked": workflow.Run
    runErrors,      \* first result of workflow.Run
    stepErrors,     \* second result of workflow.Run
    \* ---- stacks ssl add ----
    certs,          \* uuids of the stack's certificates on the server
    sslOverwrite,   \* --overwrite
    sslType,        \* --type
    domains,        \* --domains
    certFile,       \* --cert: "" (absent), "ok" (readable), "bad" (unreadable)
    keyFile,        \* --key, likewise
    intermediateFile, \* --intermediate, likewise
    sslCertificates,  \* what client.ListSslCertificates returned
    sslCertificateOperation, \* "", "create" or "update"
    sslCertificate, \* what generateSSLCertificate returned
    sslCalls,       \* the create / update requests sent, in order
    \* ---- stack resolution: stack(c) and mustStack(c) ----
    cliStack,       \* c.String("stack")
    yamlStack,      \* dotYaml.Args["stack"], "" when there is no .cx.yml
    cxstack,        \* c.String("cxstack")
    cliEnvironment, \* c.String("environment")
    account,        \* the stacks of the account on the server
    flagEnvironment,\* the global flagEnvironment
    stackArg,       \* the local stackArg
    listCalls,      \* filters of the StackListWithFilter requests, in order
    exactFind,      \* the first fuzzyFind: "none" (not called), "err" or "ok"
    otherLookups,   \* "cxstack" / "git" lookups made, in order
    flagStack,      \* the global flagStack (nil until resolved)
    \* ---- stencils render (runRenderStencil, renderStencil) and
    \* ---- snapshots render (runRenders) ----
    stencilFolder,  \* c.String("stencil-folder"), a path
    stencilFilename,\* c.String("stencil-file"), a path
    output,         \* the local output, from c.String("output")
    snapshotID,     \* c.String("snapshot")
    watch,          \* c.Bool("watch")
    stdout,         \* the local stdout of runRenderStencil
    ignoreErrors,   \* c.Bool("ignore-errors") of runRenders
    ignoreWarnings, \* c.Bool("ignore-warnings") of runRenders
    filesToRender,  \* the slice filesToRender
    outdir,         \* the local outdir
    rsIdx,          \* position of the initial render loop
    call,           \* the running renderStencil call: who called, file, output
    renderUID,      \* the local snapshotUID of renderStencil and runRenders
    snapshots,      \* the local snapshots, after sort.Sort
    callReqs,       \* render requests sent by the running call
    renderReq,      \* the render request waiting for its answer
    initialOut,     \* file and path of each write of the initial render loop
    lastWrite,      \* the last ioutil.WriteFile of renderStencil
    addIdx,         \* position of the watcher.Add loop
    watched,        \* the files added to the watcher
    events,         \* number of watcher events received
    wpc             \* position of the watcher goroutine, "none" before it starts

lsVars == <<names, environment, spawnIdx, gor, stackch, errch, errLog, recvd, stacks, rows>>
fmVars == <<formationName, server, formations, formation>>
ffVars == <<outDir, overwrite, fs0, fs, ffIdx, asks>>
adVars == <<stencilFile, btrUuid, readable, foundFormation, addCalls>>
dpVars == <<snapshotUID, logLevel, level, numCPU, workflowReq, concurrency,
            loadFailed, runState, runErrors, stepErrors>>
sslVars == <<certs, sslOverwrite, sslType, domains, certFile, keyFile,
             intermediateFile, sslCertificates, sslCertificateOperation,
             sslCertificate, sslCalls>>
stVars == <<cliStack, yamlStack, cxstack, cliEnvironment, account, flagEnvironment,
            stackArg, listCalls, exactFind, otherLookups, flagStack>>
rsVars == <<stencilFolder, stencilFilename, output, snapshotID, watch, stdout,
            ignoreErrors, ignoreWarnings, filesToRender, outdir, rsIdx, call,
            renderUID, snapshots, callReqs, renderReq, initialOut, lastWrite,
            addIdx, watched, events, wpc>>
\* the flags of the two render commands, which no step changes
rsFlags == <<stencilFolder, stencilFilename, snapshotID, watch, ignoreErrors,
             ignoreWarnings>>
vars == <<cmd, pc, fatalMsg, out, lsVars, fmVars, ffVars, adVars, dpVars, sslVars,
          stVars, rsVars>>

\* what each command's handler never touches
nonLsVars == <<fmVars, ffVars, adVars, dpVars, sslVars, stVars, rsVars>>
nonFfVars == <<lsVars, adVars, dpVars, sslVars, stVars, rsVars>>
nonAdVars == <<lsVars, ffVars, dpVars, sslVars, stVars, rsVars>>
nonDpVars == <<lsVars, ffVars, adVars, sslVars, stVars, rsVars>>
nonSslVars == <<lsVars, fmVars, ffVars, adVars, dpVars, stVars, rsVars>>
nonRsVars == <<lsVars, fmVars, ffVars, adVars, dpVars, sslVars, stVars>>
nonStVars == <<lsVars, fmVars, ffVars, adVars, dpVars, sslVars, rsVars>>

----------------------------------------------------------------------------
(* Bounds *)
MaxNames == 3
MaxAccount == 2
MaxSnapshots == 2
MaxEvents == 1
MaxCPU == 3
MaxCerts == 2

----------------------------------------------------------------------------
(* Common helpers *)
NoMsg == "<none>"

Range(s) == {s[i] : i \in 1..Len(s)}

\* strings.ToLower on one byte: 'A'..'Z' (65..90) map to 'a'..'z'
ToLowerByte(b) == IF b >= 65 /\ b <= 90 THEN b + 32 ELSE b

\* strings.ToLower
ToLower(s) == [i \in 1..Len(s) |-> ToLowerByte(s[i])]

\* Go's < on strings: bytewise lexicographic order
RECURSIVE StrLess(_, _)
StrLess(s, t) ==
    IF Len(t) = 0 THEN FALSE
    ELSE IF Len(s) = 0 THEN TRUE
    ELSE IF s[1] < t[1] THEN TRUE
    ELSE IF s[1] > t[1] THEN FALSE
    ELSE StrLess(Tail(s), Tail(t))

\* printFatal: prints the message and exits the process
PrintFatal(msg) == /\ pc' = "fatal"
                   /\ fatalMsg' = msg

----------------------------------------------------------------------------
(* stacks list: data *)

\* cloud66.Stack, reduced to the fields listStacks and printStackList read
MkStack(acc, name, env) == [AccountName |-> acc, Name |-> name, Environment |-> env]

\* the zero value of cloud66.Stack
ZeroStack == MkStack(<<>>, <<>>, <<>>)

\* *cloud66.Stack: nil, or a pointer to a stack
NilPtr == [nil |-> TRUE, val |-> ZeroStack]
Ptr(s) == [nil |-> FALSE, val |-> s]

\* The stacks of the account on the server.  Byte codes: "a" = 97,
\* "B" = 66, "x" = 120, "Y" = 89, "p" = 112, "q" = 113.
StackAx == MkStack(<<97>>, <<120>>, <<112>>)
StackAY == MkStack(<<97>>, <<89>>, <<112>>)
StackBx == MkStack(<<66>>, <<120>>, <<113>>)
AllStacks == <<StackBx, StackAY, StackAx>>

\* names a user can pass; "" is the empty argument
ArgNames == {"", "n1", "n2", "n3"}

\* client.StackInfoWithEnvironment(name, environment) when it succeeds
StackInfo(name) ==
    CASE name = "n1" -> StackAx
      [] name = "n2" -> StackAY
      [] OTHER      -> StackBx

\* the error client.StackInfoWithEnvironment returns for a name when it fails
ErrOf(name) == "fetch failed: " \o name

\* values of --environment
EnvFlags == {<<>>, <<80>>}

\* strings.HasPrefix
HasPrefix(s, prefix) ==
    /\ Len(prefix) <= Len(s)
    /\ SubSeq(s, 1, Len(prefix)) = prefix

\* the filter closure listStacks passes to client.StackListWithFilter
EnvFilter(env, item) ==
    IF env = <<>> THEN TRUE
    ELSE HasPrefix(ToLower(item.Environment), ToLower(env))

----------------------------------------------------------------------------
(* stacks list: sorting *)

\* stacksByAccountThenName.Less
Less(arr, i, j) ==
    LET accName1 == ToLower(arr[i].AccountName)
        accName2 == ToLower(arr[j].AccountName)
        name1 == ToLower(arr[i].Name)
        name2 == ToLower(arr[j].Name)
    IN StrLess(accName1, accName2)
        \/ (StrLess(accName1, accName2) /\ StrLess(name1, name2))

\* stacksByAccountThenName.Swap
Swap(arr, i, j) == [arr EXCEPT ![i] = arr[j], ![j] = arr[i]]

\* sort.Sort on a slice shorter than 12: insertion sort driven by Less/Swap
RECURSIVE InsertDown(_, _)
InsertDown(arr, j) ==
    IF j > 1 /\ Less(arr, j, j - 1)
    THEN InsertDown(Swap(arr, j, j - 1), j - 1)
    ELSE arr

RECURSIVE InsertionSortFrom(_, _)
InsertionSortFrom(arr, i) ==
    IF i > Len(arr) THEN arr
    ELSE InsertionSortFrom(InsertDown(arr, i), i + 1)

SortStacks(arr) == InsertionSortFrom(arr, 2)

\* the loop of printStackList: one row per stack with a non-empty name
StackRows(arr) == SelectSeq(arr, LAMBDA s : s.Name # <<>>)

----------------------------------------------------------------------------
(* stacks list: listStacks and printStackList *)

\* sequences over S of length lo..hi
SeqsOf(S, lo, hi) == UNION {[1..n -> S] : n \in lo..hi}

IdleLs ==
    /\ names = <<>>
    /\ environment = <<>>
    /\ spawnIdx = 0
    /\ gor = <<>>
    /\ stackch = <<>>
    /\ errch = <<>>
    /\ errLog = <<>>
    /\ recvd = 0
    /\ stacks = <<>>
    /\ rows = <<>>

\* runStacks: the state on entry to listStacks
InitStacks ==
    /\ cmd = "stacks"
    /\ pc = "ls_start"
    /\ names \in SeqsOf(ArgNames, 0, MaxNames)
    /\ environment \in EnvFlags
    /\ spawnIdx = 0
    /\ gor = [i \in 1..Len(names) |-> "none"]
    /\ stackch = <<>>
    /\ errch = <<>>
    /\ errLog = <<>>
    /\ recvd = 0
    /\ stacks = <<>>
    /\ rows = <<>>

\* len(names) == 0: client.StackListWithFilter and must(err)
LsListAll ==
    /\ cmd = "stacks" /\ pc = "ls_start" /\ Len(names) = 0
    /\ \E ok \in BOOLEAN :
         IF ok
         THEN /\ stacks' = SelectSeq(AllStacks, LAMBDA s : EnvFilter(environment, s))
              /\ pc' = "ls_print"
              /\ UNCHANGED fatalMsg
         ELSE /\ PrintFatal("stack list failed")
              /\ UNCHANGED stacks
    /\ UNCHANGED <<cmd, out, names, environment, spawnIdx, gor, stackch, errch,
                   errLog, recvd, rows, nonLsVars>>

\* len(names) > 0: make(chan, len(names)) twice, then enter the fan-out loop
LsMakeChannels ==
    /\ cmd = "stacks" /\ pc = "ls_start" /\ Len(names) > 0
    /\ pc' = "ls_spawn"
    /\ UNCHANGED <<cmd, fatalMsg, out, lsVars, nonLsVars>>

\* one iteration of `for _, name := range names`
LsSpawn ==
    /\ cmd = "stacks" /\ pc = "ls_spawn"
    /\ LET i == spawnIdx + 1 IN
         /\ IF names[i] = ""
            THEN /\ stackch' = Append(stackch, NilPtr)
                 /\ UNCHANGED gor
            ELSE /\ gor' = [gor EXCEPT ![i] = "running"]
                 /\ UNCHANGED stackch
         /\ spawnIdx' = i
         /\ pc' = IF i = Len(names) THEN "ls_join" ELSE "ls_spawn"
    /\ UNCHANGED <<cmd, fatalMsg, out, names, environment, errch, errLog, recvd,
                   stacks, rows, nonLsVars>>

\* the goroutine started for names[i]: fetch, then send on one of the channels
LsFetch(i) ==
    /\ cmd = "stacks" /\ pc \in {"ls_spawn", "ls_join"}
    /\ gor[i] = "running"
    /\ \E ok \in BOOLEAN :
         IF ok
         THEN /\ stackch' = Append(stackch, Ptr(StackInfo(names[i])))
              /\ gor' = [gor EXCEPT ![i] = "sent_stack"]
              /\ UNCHANGED <<errch, errLog>>
         ELSE /\ errch' = Append(errch, ErrOf(names[i]))
              /\ errLog' = Append(errLog, ErrOf(names[i]))
              /\ gor' = [gor EXCEPT ![i] = "sent_err"]
              /\ UNCHANGED stackch
    /\ UNCHANGED <<cmd, pc, fatalMsg, out, names, environment, spawnIdx, recvd,
                   stacks, rows, nonLsVars>>

\* the join loop runs once per name
JoinLoopDoneBug(n) == n >= Len(names) - 1
JoinLoopDone(n) == n = Len(names)

\* LsRecvErr with the printFatal call dropped: the loop goes on
LsRecvErrNoExit ==
    /\ cmd = "stacks" /\ pc = "ls_join"
    /\ errch # <<>>
    /\ errch' = Tail(errch)
    /\ recvd' = recvd + 1
    /\ pc' = IF recvd + 1 = Len(names) THEN "ls_print" ELSE "ls_join"
    /\ UNCHANGED <<cmd, fatalMsg, out, names, environment, spawnIdx, gor, stackch,
                   errLog, stacks, rows, nonLsVars>>

\* select, case err := <-errch
LsRecvErr ==
    /\ cmd = "stacks" /\ pc = "ls_join"
    /\ errch # <<>>
    /\ PrintFatal(Head(errch))
    /\ errch' = Tail(errch)
    /\ UNCHANGED <<cmd, out, names, environment, spawnIdx, gor, stackch, errLog,
                   recvd, stacks, rows, nonLsVars>>

\* select, case stack := <-stackch
LsRecvStack ==
    /\ cmd = "stacks" /\ pc = "ls_join"
    /\ stackch # <<>>
    /\ LET stack == Head(stackch) IN
         stacks' = IF ~stack.nil THEN Append(stacks, stack.val) ELSE stacks
    /\ stackch' = Tail(stackch)
    /\ recvd' = recvd + 1
    /\ pc' = IF JoinLoopDone(recvd + 1) THEN "ls_print" ELSE "ls_join"
    /\ UNCHANGED <<cmd, fatalMsg, out, names, environment, spawnIdx, gor, errch,
                   errLog>>
    /\ UNCHANGED <<rows, nonLsVars>>

\* printStackList (header, sort.Sort, one listStack per named stack), w.Flush
PrintStackList ==
    /\ cmd = "stacks" /\ pc = "ls_print"
    /\ stacks' = SortStacks(stacks)
    /\ rows' = StackRows(SortStacks(stacks))
    /\ out' = Append(out, "stack list header")
    /\ pc' = "done"
    /\ UNCHANGED <<cmd, fatalMsg, names, environment, spawnIdx, gor, stackch,
                   errch, errLog, recvd, nonLsVars>>

StacksNext ==
    \/ LsListAll
    \/ LsMakeChannels
    \/ LsSpawn
    \/ \E i \in DOMAIN gor : LsFetch(i)
    \/ LsRecvErr
    \/ LsRecvStack
    \/ PrintStackList

----------------------------------------------------------------------------
(* formations: data shared by fetch, deploy and stencils add *)

NoFile == "<absent>"

\* cloud66.Stencil
MkStencil(filename, body) == [Filename |-> filename, Body |-> body]

\* cloud66.Formation
MkFormation(name, uid, stencils) == [Name |-> name, Uid |-> uid, Stencils |-> stencils]

\* the zero value of cloud66.Formation
ZeroFormation == MkFormation("", "", <<>>)

\* *cloud66.Formation
NilFormation == [nil |-> TRUE, val |-> ZeroFormation]
FormationPtr(f) == [nil |-> FALSE, val |-> f]

FormWeb == MkFormation("web", "f1", <<MkStencil(<<"a.yml">>, "A1"), MkStencil(<<"b.yml">>, "B1")>>)
FormDb == MkFormation("db", "f2", <<MkStencil(<<"a.yml">>, "A2")>>)
FormWeb2 == MkFormation("web", "f3", <<MkStencil(<<"c.yml">>, "C3")>>)

\* the formation lists a stack can have on the server
FormationLists == {<<>>, <<FormWeb>>, <<FormDb, FormWeb>>, <<FormWeb, FormWeb2>>}

\* values of --formation
FormationNames == {"", "web", "db"}

\* names of the files that can exist under <outdir>/stencils
Files == {<<"a.yml">>, <<"b.yml">>, <<"c.yml">>}

IdleFm ==
    /\ formationName = ""
    /\ server = <<>>
    /\ formations = <<>>
    /\ formation = NilFormation

\* the loop `for _, innerFormation := range formations { if Name == name {
\* formation = &innerFormation; break } }` of fetch and deploy
RECURSIVE FirstNamed(_, _)
FirstNamed(list, name) ==
    IF list = <<>> THEN NilFormation
    ELSE IF Head(list).Name = name THEN FormationPtr(Head(list))
    ELSE FirstNamed(Tail(list), name)

----------------------------------------------------------------------------
(* formations fetch: runFetchFormation *)

\* answers a user can type at the overwrite question
Answers == {"y", "n", ""}

\* ask(question, expected): true when the user's answer is the expected one
Ask(answer, expected) == answer = expected

\* fileExists
FileExists(files, f) == files[f] # NoFile

IdleFf ==
    /\ outDir = ""
    /\ overwrite = FALSE
    /\ fs0 = [f \in Files |-> NoFile]
    /\ fs = fs0
    /\ ffIdx = 0
    /\ asks = <<>>

InitFetch ==
    /\ cmd = "fetch"
    /\ pc = "ff_start"
    /\ formationName \in FormationNames
    /\ server \in FormationLists
    /\ formations = <<>>
    /\ formation = NilFormation
    /\ outDir \in {"", "out"}
    /\ overwrite \in BOOLEAN
    /\ fs0 \in [Files -> {NoFile, "old"}]
    /\ fs = fs0
    /\ ffIdx = 0
    /\ asks = <<>>

\* formationName == "" check, client.Formations, must(err), the search loop
\* and the formation == nil check
FfFindFormation ==
    /\ cmd = "fetch" /\ pc = "ff_name"
    /\ IF formationName = ""
       THEN /\ PrintFatal("No formation provided")
            /\ UNCHANGED <<formations, formation>>
       ELSE \E ok \in BOOLEAN :
            IF ~ok
            THEN /\ PrintFatal("formations request failed")
                 /\ UNCHANGED <<formations, formation>>
            ELSE /\ formations' = server
                 /\ formation' = FirstNamed(server, formationName)
                 /\ IF FirstNamed(server, formationName).nil
                    THEN PrintFatal("Formation could not be found")
                    ELSE pc' = "ff_outdir" /\ UNCHANGED fatalMsg
    /\ UNCHANGED <<cmd, out, formationName, server, ffVars, nonFfVars>>

\* outDir == "" check and os.MkdirAll(stencilDir)
FfOutDir ==
    /\ cmd = "fetch" /\ pc = "ff_outdir"
    /\ IF outDir = ""
       THEN PrintFatal("No output directory provided")
       ELSE \E ok \in BOOLEAN :
            IF ok THEN pc' = "ff_loop" /\ UNCHANGED fatalMsg
            ELSE PrintFatal("Unable to create directory")
    /\ UNCHANGED <<cmd, out, fmVars, ffVars, nonFfVars>>

\* whether the loop body asks the user: the file exists and --overwrite is off
FfAsks(exists, ow) == exists /\ ~ow

\* FfWrite with the user's answer ignored
FfWriteAlways(exists, ow, confirmed) == exists

\* the value of `write` when the loop body reaches `if write`
FfWrite(exists, ow, confirmed) ==
    IF exists
    THEN IF ~ow THEN confirmed ELSE TRUE
    ELSE FALSE

\* one iteration of `for _, stencil := range formation.Stencils`
FfStencil ==
    /\ cmd = "fetch" /\ pc = "ff_loop"
    /\ ffIdx < Len(formation.val.Stencils)
    /\ LET stencil == formation.val.Stencils[ffIdx + 1]
           exists == FileExists(fs, stencil.Filename)
       IN \E answer \in Answers, wrote \in BOOLEAN :
            /\ asks' = IF FfAsks(exists, overwrite)
                       THEN Append(asks, [file |-> stencil.Filename,
                                          yes |-> Ask(answer, "y")])
                       ELSE asks
            /\ IF FfWrite(exists, overwrite, Ask(answer, "y"))
               THEN IF wrote
                    THEN /\ fs' = [fs EXCEPT ![stencil.Filename] = stencil.Body]
                         /\ pc' = "ff_loop"
                         /\ UNCHANGED fatalMsg
                    ELSE /\ PrintFatal("Writing failed")
                         /\ UNCHANGED fs
               ELSE /\ pc' = "ff_loop"
                    /\ UNCHANGED <<fs, fatalMsg>>
            /\ ffIdx' = ffIdx + 1
    /\ UNCHANGED <<cmd, out, fmVars, outDir, overwrite, fs0, nonFfVars>>

\* after the loop: fmt.Printf("\nFormation is available at %s\n", stencilDir)
FfFinish ==
    /\ cmd = "fetch" /\ pc = "ff_loop"
    /\ ffIdx = Len(formation.val.Stencils)
    /\ out' = Append(out, "Formation is available")
    /\ pc' = "done"
    /\ UNCHANGED <<cmd, fatalMsg, fmVars, ffVars, nonFfVars>>

FetchNext ==
    \/ FfFindFormation
    \/ FfOutDir
    \/ FfStencil
    \/ FfFinish

----------------------------------------------------------------------------
(* stencils add: runAddStencil and addStencil *)

\* values of --stencil: none, a bare file name, a file in a directory
StencilPaths == {<<>>, <<"a.yml">>, <<"dir", "a.yml">>, <<"c.yml">>, <<"dir", "c.yml">>}

\* the value of c.String("base-template").  The flag list of the add
\* command (formation, stack, stencil, service, template, sequence, message,
\* tags) has no base-template flag, so it is always "".
BaseTemplates == {""}

\* filepath.Base of a non-empty path: its last element
Base(path) == <<path[Len(path)]>>

IdleAd ==
    /\ stencilFile = <<>>
    /\ btrUuid = ""
    /\ readable = FALSE
    /\ foundFormation = ZeroFormation
    /\ addCalls = <<>>

InitAdd ==
    /\ cmd = "add"
    /\ pc = "ad_start"
    /\ formationName \in FormationNames
    /\ server \in FormationLists
    /\ formations = <<>>
    /\ formation = NilFormation
    /\ stencilFile \in StencilPaths
    /\ btrUuid \in BaseTemplates
    /\ readable \in BOOLEAN
    /\ foundFormation = ZeroFormation
    /\ addCalls = <<>>

\* the abort test of the search loop: a formation of the given name has a
\* stencil whose Filename == stencilFile
SameNameFound(list, name, file) ==
    \E i \in DOMAIN list :
        /\ list[i].Name = name
        /\ \E st \in Range(list[i].Stencils) : st.Filename = file

\* AdCheckFlags without the base-template check: the run goes on with the
\* search loop, addStencil and the final Println
AdCheckFlagsNoBaseTemplate ==
    /\ cmd = "add" /\ pc = "ad_flags"
    /\ IF formationName = ""
       THEN PrintFatal("No formation provided") /\ UNCHANGED <<addCalls, out>>
       ELSE IF stencilFile = <<>>
       THEN PrintFatal("No stencil filename provided") /\ UNCHANGED <<addCalls, out>>
       ELSE IF SameNameFound(server, formationName, stencilFile)
       THEN /\ PrintFatal("Another stencil with the same name is found")
            /\ UNCHANGED <<addCalls, out>>
       ELSE IF ~readable
       THEN PrintFatal("cannot read stencil file") /\ UNCHANGED <<addCalls, out>>
       ELSE /\ addCalls' = Append(addCalls, [btr |-> btrUuid,
                                             Filename |-> Base(stencilFile)])
            /\ out' = Append(out, "Stencil was added to formation")
            /\ pc' = "done"
            /\ UNCHANGED fatalMsg
    /\ UNCHANGED <<cmd, fmVars, stencilFile, btrUuid, readable, foundFormation,
                   nonAdVars>>

\* the three required-value checks: formation, stencil, base-template.
\* btrUuid is always "", so the last check ends every run that passed the
\* first two: the statements after it (client.Formations, the search loop,
\* addStencil, the final Println) are never executed.
AdCheckFlags ==
    /\ cmd = "add" /\ pc = "ad_flags"
    /\ IF formationName = "" THEN PrintFatal("No formation provided")
       ELSE IF stencilFile = <<>> THEN PrintFatal("No stencil filename provided")
       ELSE IF btrUuid = "" THEN PrintFatal("No base template uuid provided")
       ELSE pc' = "ad_formations" /\ UNCHANGED fatalMsg
    /\ UNCHANGED <<cmd, out, fmVars, adVars, nonAdVars>>

AddNext ==
    \/ AdCheckFlags

----------------------------------------------------------------------------
(* formations deploy: runDeployFormation *)

\* a nil error
NoErr == "<nil>"

\* options.Concurrency before options is built
NoOptions == -1

IdleDp ==
    /\ snapshotUID = ""
    /\ logLevel = ""
    /\ level = "info"
    /\ numCPU = 1
    /\ workflowReq = <<>>
    /\ concurrency = NoOptions
    /\ loadFailed = FALSE
    /\ runState = "no"
    /\ runErrors = NoErr
    /\ stepErrors = NoErr

InitDeploy ==
    /\ cmd = "deploy"
    /\ pc = "dp_start"
    /\ formationName \in FormationNames
    /\ server \in FormationLists
    /\ formations = <<>>
    /\ formation = NilFormation
    /\ snapshotUID \in {"", "snap1"}
    /\ logLevel \in {"", "debug"}
    /\ level = "info"
    /\ numCPU \in 1..MaxCPU
    /\ workflowReq = <<>>
    /\ concurrency = NoOptions
    /\ loadFailed = FALSE
    /\ runState = "no"
    /\ runErrors = NoErr
    /\ stepErrors = NoErr

\* formationName == "" check, client.Formations, must(err), the search loop
\* and the formation == nil check
DpFindFormation ==
    /\ cmd = "deploy" /\ pc = "dp_name"
    /\ IF formationName = ""
       THEN /\ PrintFatal("No formation provided")
            /\ UNCHANGED <<formations, formation>>
       ELSE \E ok \in BOOLEAN :
            IF ~ok
            THEN /\ PrintFatal("formations request failed")
                 /\ UNCHANGED <<formations, formation>>
            ELSE /\ formations' = server
                 /\ formation' = FirstNamed(server, formationName)
                 /\ IF FirstNamed(server, formationName).nil
                    THEN PrintFatal("Formation could not be found")
                    ELSE pc' = "dp_workflow" /\ UNCHANGED fatalMsg
    /\ UNCHANGED <<cmd, out, formationName, server, dpVars, nonDpVars>>

\* snapshotUID default, log level, client.GetWorkflow and must(err)
DpGetWorkflow ==
    /\ cmd = "deploy" /\ pc = "dp_workflow"
    /\ LET uid == IF snapshotUID = "" THEN "latest" ELSE snapshotUID IN
         /\ snapshotUID' = uid
         /\ workflowReq' = Append(workflowReq, [formation |-> formation.val.Uid,
                                                snapshot |-> uid])
    /\ level' = IF logLevel = "info" THEN "info"
                ELSE IF logLevel = "debug" THEN "debug"
                ELSE "info"
    /\ \E ok \in BOOLEAN :
         IF ok THEN pc' = "dp_load" /\ UNCHANGED fatalMsg
         ELSE PrintFatal("workflow request failed")
    /\ UNCHANGED <<cmd, out, fmVars, logLevel, numCPU, concurrency, loadFailed,
                   runState, runErrors, stepErrors, nonDpVars>>

\* options (Concurrency: runtime.NumCPU() - 1) and LoadWorkflowFromReader,
\* whose error is assigned to err and not looked at
DpLoadWorkflow ==
    /\ cmd = "deploy" /\ pc = "dp_load"
    /\ concurrency' = numCPU - 1
    /\ \E failed \in BOOLEAN : loadFailed' = failed
    /\ pc' = "dp_run"
    /\ UNCHANGED <<cmd, fatalMsg, out, fmVars, snapshotUID, logLevel, level, numCPU,
                   workflowReq, runState, runErrors, stepErrors, nonDpVars>>

\* DeployReport with the two checks in the other order
DeployReportStepFirst(runE, stepE) ==
    IF stepE # NoErr THEN stepE
    ELSE IF runE # NoErr THEN runE
    ELSE NoMsg

\* the two checks after workflow.Run: the message printFatal gets, or NoMsg
DeployReport(runE, stepE) ==
    IF runE # NoErr THEN runE
    ELSE IF stepE # NoErr THEN stepE
    ELSE NoMsg

\* workflow.Run(ctx) and the two checks on its results.  After a failed
\* load the workflow pointer is whatever the library returned with its
\* error; Run on it either panics or returns.
DpRun ==
    /\ cmd = "deploy" /\ pc = "dp_run"
    /\ \/ /\ loadFailed
          /\ runState' = "panicked"
          /\ pc' = "panic"
          /\ UNCHANGED <<runErrors, stepErrors, fatalMsg>>
       \/ \E runE \in {NoErr, "run error"}, stepE \in {NoErr, "step error"} :
            /\ runState' = "returned"
            /\ runErrors' = runE
            /\ stepErrors' = stepE
            /\ IF DeployReport(runE, stepE) # NoMsg
               THEN PrintFatal(DeployReport(runE, stepE))
               ELSE pc' = "done" /\ UNCHANGED fatalMsg
    /\ UNCHANGED <<cmd, out, fmVars, snapshotUID, logLevel, level, numCPU,
                   workflowReq, concurrency, loadFailed, nonDpVars>>

DeployNext ==
    \/ DpFindFormation
    \/ DpGetWorkflow
    \/ DpLoadWorkflow
    \/ DpRun

----------------------------------------------------------------------------
(* stacks ssl add: addSSLCertificate and generateSSLCertificate *)

\* cloud66.LetsEncryptSslCertificateType, cloud66.ManualSslCertificateType
LetsEncryptSslCertificateType == "lets_encrypt"
ManualSslCertificateType == "manual"

\* values of --type
SslTypes == {"", LetsEncryptSslCertificateType, ManualSslCertificateType, "other"}

\* a file flag: not given, a readable file, an unreadable file
FileFlags == {"", "ok", "bad"}

\* a nil *string
NilString == "<nil>"

\* a nil *cloud66.SslCertificate
NilCert == [Type |-> "", ServerNames |-> "", Certificate |-> NilString,
            Key |-> NilString, IntermediateCertificate |-> NilString]

\* ioutil.ReadFile on a file flag: the content, or an error
ReadFile(file) == IF file = "ok" THEN [err |-> NoErr, data |-> "data"]
                  ELSE [err |-> "read error", data |-> ""]

\* generateLetsEncryptSSLCertificate
GenerateLetsEncryptSSLCertificate(doms) ==
    IF doms = ""
    THEN [err |-> "No domains names specified", cert |-> NilCert]
    ELSE [err |-> NoErr,
          cert |-> [Type |-> LetsEncryptSslCertificateType, ServerNames |-> doms,
                    Certificate |-> NilString, Key |-> NilString,
                    IntermediateCertificate |-> NilString]]

\* GenerateManualSSLCertificate without the checks on --key
GenerateManualNoKeyCheck(doms, cert, key, intermediate) ==
    IF cert = "" THEN [err |-> "No certificate file specified", cert |-> NilCert]
    ELSE IF ReadFile(cert).err # NoErr THEN [err |-> ReadFile(cert).err, cert |-> NilCert]
    ELSE [err |-> NoErr,
          cert |-> [Type |-> ManualSslCertificateType, ServerNames |-> doms,
                    Certificate |-> ReadFile(cert).data,
                    Key |-> ReadFile(key).data,
                    IntermediateCertificate |-> NilString]]

\* generateManualSSLCertificate
GenerateManualSSLCertificate(doms, cert, key, intermediate) ==
    IF cert = "" THEN [err |-> "No certificate file specified", cert |-> NilCert]
    ELSE IF ReadFile(cert).err # NoErr THEN [err |-> ReadFile(cert).err, cert |-> NilCert]
    ELSE IF key = "" THEN [err |-> "No key file specified", cert |-> NilCert]
    ELSE IF ReadFile(key).err # NoErr THEN [err |-> ReadFile(key).err, cert |-> NilCert]
    ELSE IF intermediate # "" /\ ReadFile(intermediate).err # NoErr
         THEN [err |-> ReadFile(intermediate).err, cert |-> NilCert]
    ELSE [err |-> NoErr,
          cert |-> [Type |-> ManualSslCertificateType, ServerNames |-> doms,
                    Certificate |-> ReadFile(cert).data,
                    Key |-> ReadFile(key).data,
                    IntermediateCertificate |->
                        IF intermediate # "" THEN ReadFile(intermediate).data
                        ELSE NilString]]

\* generateSSLCertificate
GenerateSSLCertificate(type, doms, cert, key, intermediate) ==
    IF type = LetsEncryptSslCertificateType
    THEN GenerateLetsEncryptSSLCertificate(doms)
    ELSE IF type = ManualSslCertificateType
    THEN GenerateManualSSLCertificate(doms, cert, key, intermediate)
    ELSE [err |-> "Please ensure that you specify the SSL certificate type",
          cert |-> NilCert]

IdleSsl ==
    /\ certs = <<>>
    /\ sslOverwrite = FALSE
    /\ sslType = ""
    /\ domains = ""
    /\ certFile = ""
    /\ keyFile = ""
    /\ intermediateFile = ""
    /\ sslCertificates = <<>>
    /\ sslCertificateOperation = ""
    /\ sslCertificate = NilCert
    /\ sslCalls = <<>>

\* the certificate lists a stack can have: uuids "u1", "u2", ...
CertLists == {[i \in 1..n |-> <<"u", i>>] : n \in 0..MaxCerts}

InitSsl ==
    /\ cmd = "ssl"
    /\ pc = "ssl_start"
    /\ certs \in CertLists
    /\ sslOverwrite \in BOOLEAN
    /\ sslType \in SslTypes
    /\ domains \in {"", "web.domain.com"}
    /\ certFile \in FileFlags
    /\ keyFile \in FileFlags
    /\ intermediateFile \in FileFlags
    /\ sslCertificates = <<>>
    /\ sslCertificateOperation = ""
    /\ sslCertificate = NilCert
    /\ sslCalls = <<>>

\* SslOperation that updates whether or not --overwrite is given
SslOperationNoFlag(n, ow) == IF n # 0 THEN "update" ELSE "create"

\* the choice of sslCertificateOperation from len(sslCertificates) and
\* --overwrite; "refuse" is the printFatal branch
SslOperation(n, ow) ==
    IF n # 0
    THEN IF ~ow THEN "refuse" ELSE "update"
    ELSE "create"

\* client.ListSslCertificates, its error check and the choice of operation
SslList ==
    /\ cmd = "ssl" /\ pc = "ssl_list"
    /\ \E ok \in BOOLEAN :
         IF ~ok
         THEN /\ PrintFatal("list certificates request failed")
              /\ UNCHANGED <<sslCertificates, sslCertificateOperation>>
         ELSE /\ sslCertificates' = certs
              /\ IF SslOperation(Len(certs), sslOverwrite) = "refuse"
                 THEN /\ PrintFatal("SSL certificate already exists for this application")
                      /\ UNCHANGED sslCertificateOperation
                 ELSE /\ sslCertificateOperation' = SslOperation(Len(certs), sslOverwrite)
                      /\ pc' = "ssl_generate"
                      /\ UNCHANGED fatalMsg
    /\ UNCHANGED <<cmd, out, certs, sslOverwrite, sslType, domains, certFile, keyFile,
                   intermediateFile, sslCertificate, sslCalls, nonSslVars>>

\* sslCertificate, err := generateSSLCertificate(c) and its error check
SslGenerate ==
    /\ cmd = "ssl" /\ pc = "ssl_generate"
    /\ LET r == GenerateSSLCertificate(sslType, domains, certFile, keyFile,
                                       intermediateFile)
       IN IF r.err # NoErr
          THEN PrintFatal(r.err) /\ UNCHANGED sslCertificate
          ELSE /\ sslCertificate' = r.cert
               /\ pc' = "ssl_send"
               /\ UNCHANGED fatalMsg
    /\ UNCHANGED <<cmd, out, certs, sslOverwrite, sslType, domains, certFile, keyFile,
                   intermediateFile, sslCertificates, sslCertificateOperation,
                   sslCalls, nonSslVars>>

\* the switch on sslCertificateOperation, the request, its error check and
\* the success message
SslSend ==
    /\ cmd = "ssl" /\ pc = "ssl_send"
    /\ sslCalls' = Append(sslCalls,
          [op |-> sslCertificateOperation,
           uuid |-> IF sslCertificateOperation = "update"
                    THEN sslCertificates[1] ELSE <<>>,
           cert |-> sslCertificate])
    /\ \E ok \in BOOLEAN :
         IF ok
         THEN /\ out' = Append(out, IF sslCertificateOperation = "create"
                                    THEN "Creating SSL certificate..."
                                    ELSE "Updating SSL certificate...")
              /\ pc' = "done"
              /\ UNCHANGED fatalMsg
         ELSE /\ PrintFatal("certificate request failed")
              /\ UNCHANGED out
    /\ UNCHANGED <<cmd, certs, sslOverwrite, sslType, domains, certFile, keyFile,
                   intermediateFile, sslCertificates, sslCertificateOperation,
                   sslCertificate, nonSslVars>>

SslNext ==
    \/ SslList
    \/ SslGenerate
    \/ SslSend

----------------------------------------------------------------------------
(* stack resolution: stack, getArgument, mustStack and the two filters *)

\* Byte codes: "w" = 119, "x" = 120, "z" = 122, "n" = 110, "W" = 87.
\* stacks an account can hold: name and environment
StackWp == MkStack(<<97>>, <<119>>, <<112>>)
StackPool ==
    {StackWp,
     MkStack(<<97>>, <<119>>, <<112, 113>>),
     MkStack(<<97>>, <<119, 120>>, <<112, 113>>),
     MkStack(<<97>>, <<122>>, <<80>>)}

\* the stack lists an account can have: no stack twice
AccountLists ==
    {l \in SeqsOf(StackPool, 0, MaxAccount) :
        \A i, j \in DOMAIN l : i # j => l[i] # l[j]}

\* values of --stack and of the stack entry of .cx.yml: "", "w", "W", "z", "n"
StackArgs == {<<>>, <<119>>, <<87>>, <<122>>, <<110>>}

\* values of --environment: "", "P", "pq", "q"
StackEnvFlags == {<<>>, <<80>>, <<112, 113>>, <<113>>}

\* what client.StackInfo returns as the stack
StackCx == MkStack(<<97>>, <<99>>, <<112>>)

\* fuzzyFind(names, item, false): what it can return for a list of names,
\* an error or the index of one of the names
FuzzyFind(nameList, item) ==
    {[err |-> TRUE, idx |-> 0]} \cup
    {[err |-> FALSE, idx |-> i] : i \in DOMAIN nameList}

\* filterByEnvironmentExact
FilterByEnvironmentExact(flagEnv, item) ==
    IF flagEnv = <<>> THEN TRUE
    ELSE ToLower(item.Environment) = ToLower(flagEnv)

\* filterByEnvironmentFuzzy
FilterByEnvironmentFuzzy(flagEnv, item) ==
    IF flagEnv = <<>> THEN TRUE
    ELSE HasPrefix(ToLower(item.Environment), ToLower(flagEnv))

\* client.StackListWithFilter with each of the two filters
ListExact(all, flagEnv) == SelectSeq(all, LAMBDA st : FilterByEnvironmentExact(flagEnv, st))
ListFuzzy(all, flagEnv) == SelectSeq(all, LAMBDA st : FilterByEnvironmentFuzzy(flagEnv, st))

\* the loops that collect stack.Name of every listed stack
StackNames(list) == [i \in DOMAIN list |-> list[i].Name]

\* GetArgument reading .cx.yml before the command line
GetArgumentYamlFirst(cli, yaml) == IF yaml # <<>> THEN yaml ELSE cli

\* getArgument(c, "stack")
GetArgument(cli, yaml) ==
    IF cli # <<>> THEN cli
    ELSE IF yaml # <<>> THEN yaml
    ELSE <<>>

IdleSt ==
    /\ cliStack = <<>>
    /\ yamlStack = <<>>
    /\ cxstack = ""
    /\ cliEnvironment = <<>>
    /\ account = <<>>
    /\ flagEnvironment = <<>>
    /\ stackArg = <<>>
    /\ listCalls = <<>>
    /\ exactFind = "none"
    /\ otherLookups = <<>>
    /\ flagStack = NilPtr

\* the flags and the account of the commands modelled past mustStack, on an
\* account with the stack w: no stack flag, --stack w, and for the commands
\* that main gives an environment flag, --stack w --environment P
CallerSt(hasEnvironmentFlag) ==
    /\ \/ cliStack = <<>> /\ cliEnvironment = <<>>
       \/ cliStack = <<119>> /\ cliEnvironment = <<>>
       \/ hasEnvironmentFlag /\ cliStack = <<119>> /\ cliEnvironment = <<80>>
    /\ yamlStack = <<>>
    /\ cxstack = ""
    /\ account = <<StackWp>>
    /\ flagEnvironment = <<>>
    /\ stackArg = <<>>
    /\ listCalls = <<>>
    /\ exactFind = "none"
    /\ otherLookups = <<>>
    /\ flagStack = NilPtr

\* where each command calls mustStack, and where it goes on after it
StackEntry ==
    {"st_start", "ff_start", "ad_start", "dp_start", "ssl_start", "rs_start",
     "rr_start"}
\* the positions inside stack()
StackPcs == StackEntry \cup {"st_exact", "st_fuzzy", "st_cxstack", "st_git"}

\* the messages of the printFatal calls of mustStack
StackFatal ==
    {"No stack specified", "stack list failed", "stack not found",
     "stack info failed", "git remote lookup failed"}

AfterStack ==
    CASE cmd = "fetch" -> "ff_name"
      [] cmd = "add" -> "ad_flags"
      [] cmd = "deploy" -> "dp_name"
      [] cmd = "ssl" -> "ssl_list"
      [] cmd = "render" -> "rs_flags"
      [] cmd = "renders" -> "rr_snapshot"
      [] OTHER -> "done"

\* fmt.Printf("(%s)\n", flagStack.Environment)
EnvLine(env) ==
    CASE env = <<112>> -> "(p)"
      [] env = <<112, 113>> -> "(pq)"
      [] env = <<80>> -> "(P)"
      [] OTHER -> "()"

InitStack ==
    /\ cmd = "stack"
    /\ pc = "st_start"
    /\ cliStack \in StackArgs
    /\ yamlStack \in {<<>>, <<119>>, <<122>>}
    /\ cxstack \in {"", "c"}
    /\ cliEnvironment \in StackEnvFlags
    /\ account \in AccountLists
    /\ flagEnvironment = <<>>
    /\ stackArg = <<>>
    /\ listCalls = <<>>
    /\ exactFind = "none"
    /\ otherLookups = <<>>
    /\ flagStack = NilPtr

\* stack(): flagStack is nil on the first call; flagEnvironment; getArgument
\* and the choice between the three sources
StArgument ==
    /\ pc \in StackEntry
    /\ flagEnvironment' = IF cliEnvironment # <<>> THEN cliEnvironment
                          ELSE flagEnvironment
    /\ stackArg' = GetArgument(cliStack, yamlStack)
    /\ pc' = IF GetArgument(cliStack, yamlStack) # <<>> THEN "st_exact"
             ELSE IF cxstack # "" THEN "st_cxstack"
             ELSE "st_git"
    /\ UNCHANGED <<cmd, fatalMsg, out, cliStack, yamlStack, cxstack, cliEnvironment,
                   account, listCalls, exactFind, otherLookups, flagStack, nonStVars>>

\* the end of stack() with a stack and mustStack's return
StFound(st) ==
    /\ flagStack' = Ptr(st)
    /\ out' = IF cliEnvironment # <<>> THEN Append(out, EnvLine(st.Environment))
              ELSE out
    /\ pc' = AfterStack
    /\ UNCHANGED fatalMsg

\* StackListWithFilter(filterByEnvironmentExact) and the first fuzzyFind
StExact ==
    /\ pc = "st_exact"
    /\ listCalls' = Append(listCalls, "exact")
    /\ \E ok \in BOOLEAN :
         IF ~ok
         THEN /\ PrintFatal("stack list failed")
              /\ UNCHANGED <<flagStack, out, exactFind>>
         ELSE LET list == ListExact(account, flagEnvironment)
              IN \E r \in FuzzyFind(StackNames(list), stackArg) :
                   IF r.err
                   THEN /\ pc' = "st_fuzzy"
                        /\ exactFind' = "err"
                        /\ UNCHANGED <<flagStack, out, fatalMsg>>
                   ELSE /\ exactFind' = "ok"
                        /\ StFound(list[r.idx])
    /\ UNCHANGED <<cmd, cliStack, yamlStack, cxstack, cliEnvironment, account,
                   flagEnvironment, stackArg, otherLookups, nonStVars>>

\* "try fuzzy env match": StackListWithFilter(filterByEnvironmentFuzzy) and
\* the second fuzzyFind; mustStack turns an error into printFatal
StFuzzy ==
    /\ pc = "st_fuzzy"
    /\ listCalls' = Append(listCalls, "fuzzy")
    /\ \E ok \in BOOLEAN :
         IF ~ok
         THEN /\ PrintFatal("stack list failed")
              /\ UNCHANGED <<flagStack, out>>
         ELSE LET list == ListFuzzy(account, flagEnvironment)
              IN \E r \in FuzzyFind(StackNames(list), stackArg) :
                   IF r.err
                   THEN /\ PrintFatal("stack not found")
                        /\ UNCHANGED <<flagStack, out>>
                   ELSE StFound(list[r.idx])
    /\ UNCHANGED <<cmd, cliStack, yamlStack, cxstack, cliEnvironment, account,
                   flagEnvironment, stackArg, exactFind, otherLookups, nonStVars>>

\* c.String("cxstack") != "": client.StackInfo(stack); mustStack's checks
StCxStack ==
    /\ pc = "st_cxstack"
    /\ otherLookups' = Append(otherLookups, "cxstack")
    /\ \E ok \in BOOLEAN :
         IF ok
         THEN /\ flagStack' = Ptr(StackCx)
              /\ pc' = AfterStack
              /\ UNCHANGED fatalMsg
         ELSE /\ PrintFatal("stack info failed")
              /\ UNCHANGED flagStack
    /\ UNCHANGED <<cmd, out, cliStack, yamlStack, cxstack, cliEnvironment, account,
                   flagEnvironment, stackArg, listCalls, exactFind, nonStVars>>

\* stackFromGitRemote(remoteGitUrl(), localGitBranch()): a stack, nil or an
\* error; mustStack's checks.  flagStack is not set on this path.
StGit ==
    /\ pc = "st_git"
    /\ otherLookups' = Append(otherLookups, "git")
    /\ \E res \in {"stack", "nil", "err"} :
         IF res = "stack"
         THEN /\ pc' = AfterStack
              /\ UNCHANGED fatalMsg
         ELSE IF res = "nil"
         THEN PrintFatal("No stack specified")
         ELSE PrintFatal("git remote lookup failed")
    /\ UNCHANGED <<cmd, out, cliStack, yamlStack, cxstack, cliEnvironment, account,
                   flagEnvironment, stackArg, listCalls, exactFind, flagStack,
                   nonStVars>>

StackNext ==
    \/ StArgument
    \/ StExact
    \/ StFuzzy
    \/ StCxStack
    \/ StGit

----------------------------------------------------------------------------
(* stencils render and snapshots render: data *)

\* time.Time has a finer resolution than the second: times are counted in
\* ticks, TicksPerSecond of them to the second
TicksPerSecond == 2

\* cloud66.Snapshot, reduced to the fields the render commands read
MkSnapshot(uid, t) == [Uid |-> uid, TriggeredAt |-> t]

\* time.Time.Unix(): the whole seconds of a time
Unix(t) == t \div TicksPerSecond

\* the Uid of the snapshot at each position of the server's answer
SnapshotUids == <<"s1", "s2", "s3", "s4">>

\* what client.Snapshots can return: snapshots triggered within the first
\* second and at the start of the next one
SnapshotLists ==
    {[i \in 1..n |-> MkSnapshot(SnapshotUids[i], t[i])] :
        n \in 0..MaxSnapshots, t \in [1..MaxSnapshots -> 0..TicksPerSecond]}

\* snapshotsByDate.Less
SnapshotsByDateLess(a, i, j) ==
    Unix(a[i].TriggeredAt) >= Unix(a[j].TriggeredAt)

\* sort.Sort(snapshotsByDate(snapshots)): insertion sort for short slices
RECURSIVE SnapshotsInsertDown(_, _)
SnapshotsInsertDown(arr, j) ==
    IF j > 1 /\ SnapshotsByDateLess(arr, j, j - 1)
    THEN SnapshotsInsertDown(Swap(arr, j, j - 1), j - 1)
    ELSE arr

RECURSIVE SnapshotsSortFrom(_, _)
SnapshotsSortFrom(arr, i) ==
    IF i > Len(arr) THEN arr
    ELSE SnapshotsSortFrom(SnapshotsInsertDown(arr, i), i + 1)

SortSnapshots(arr) == SnapshotsSortFrom(arr, 2)

\* filepath.Dir of a non-empty path: all but its last element, "." when
\* nothing is left
Dir(path) == IF Len(path) <= 1 THEN <<".">> ELSE SubSeq(path, 1, Len(path) - 1)

\* filepath.Join: the elements of both, cleaned of "." elements
Join(a, b) == SelectSeq(a \o b, LAMBDA e : e # ".")

\* cloud66.Stencil as renderStencil reads it
MkRenderStencil(filename, uid) == [Filename |-> filename, Uid |-> uid]

\* what client.Formations can return to renderStencil
RenderFormationLists ==
    LET web == MkFormation("web", "f1", <<MkRenderStencil(<<"a.yml">>, "u1"),
                                          MkRenderStencil(<<"b.yml">>, "u2")>>)
        db == MkFormation("db", "f2", <<MkRenderStencil(<<"a.yml">>, "u3")>>)
    IN {<<>>, <<web>>, <<db, web>>, <<db>>}

\* the inner loop of renderStencil over formation.Stencils: the Uid of the
\* last stencil with the file name, the previous value when there is none
RECURSIVE StencilUIDOf(_, _, _)
StencilUIDOf(stencils, stencilName, uid) ==
    IF stencils = <<>> THEN uid
    ELSE StencilUIDOf(Tail(stencils), stencilName,
                      IF Head(stencils).Filename = stencilName
                      THEN Head(stencils).Uid ELSE uid)

\* the outer loop of renderStencil over the formations, and the check after
\* it: the two uids, or the message of the printFatal that ends the loop
RECURSIVE FindStencil(_, _, _, _, _)
FindStencil(list, name, stencilName, formationUID, stencilUID) ==
    IF list = <<>>
    THEN IF formationUID = ""
         THEN [fatal |-> "No formation found", formationUID |-> "", stencilUID |-> ""]
         ELSE [fatal |-> NoMsg, formationUID |-> formationUID, stencilUID |-> stencilUID]
    ELSE IF Head(list).Name = name
    THEN LET uid == StencilUIDOf(Head(list).Stencils, stencilName, stencilUID)
         IN IF uid = ""
            THEN [fatal |-> "No stencil found", formationUID |-> "", stencilUID |-> ""]
            ELSE FindStencil(Tail(list), name, stencilName, Head(list).Uid, uid)
    ELSE FindStencil(Tail(list), name, stencilName, formationUID, stencilUID)

\* no renderStencil call is running; no file written yet
NoCall == [by |-> "none", stencil |-> <<>>, output |-> <<>>]

\* no request in flight
NoReq == [snapshot |-> "", stencil |-> ""]

\* the results of ioutil.ReadDir(stencilFolder): the file names
FolderFiles == {<<>>, <<"a.yml">>, <<"a.yml", "b.yml">>}

\* what the server answers to the render request of renderStencil: a failed
\* request, render errors, render warnings, no stencil, one rendered stencil
RenderAnswers == {"fail", "errors", "warnings", "empty", "ok"}

\* what the server answers to the render request of runRenders: a failed
\* request, or renders with or without errors, warnings and a stencil
RendersAnswers ==
    [fail : {TRUE}, errors : {FALSE}, warnings : {FALSE}, stencils : {0}] \cup
    [fail : {FALSE}, errors : BOOLEAN, warnings : BOOLEAN, stencils : {0, 1}]

IdleRs ==
    /\ stencilFolder = <<>>
    /\ stencilFilename = <<>>
    /\ output = <<>>
    /\ snapshotID = ""
    /\ watch = FALSE
    /\ stdout = FALSE
    /\ ignoreErrors = FALSE
    /\ ignoreWarnings = FALSE
    /\ filesToRender = <<>>
    /\ outdir = <<>>
    /\ rsIdx = 0
    /\ call = NoCall
    /\ renderUID = ""
    /\ snapshots = <<>>
    /\ callReqs = 0
    /\ renderReq = NoReq
    /\ initialOut = {}
    /\ lastWrite = NoCall
    /\ addIdx = 0
    /\ watched = {}
    /\ events = 0
    /\ wpc = "none"

\* the locals of both render commands before the first statement
RsLocals ==
    /\ stdout = FALSE
    /\ filesToRender = <<>>
    /\ rsIdx = 0
    /\ call = NoCall
    /\ renderUID = ""
    /\ snapshots = <<>>
    /\ callReqs = 0
    /\ renderReq = NoReq
    /\ initialOut = {}
    /\ lastWrite = NoCall
    /\ addIdx = 0
    /\ watched = {}
    /\ events = 0
    /\ wpc = "none"

\* the flags of `stencils render`
InitRender ==
    /\ cmd = "render"
    /\ pc = "rs_start"
    /\ formationName \in {"", "web"}
    /\ server = <<>>
    /\ formations = <<>>
    /\ formation = NilFormation
    /\ stencilFolder \in {<<>>, <<"st">>}
    /\ stencilFilename \in {<<>>, <<"st", "a.yml">>}
    /\ output \in {<<>>, <<"out">>, <<"r.yml">>}
    /\ snapshotID \in {"", "latest", "s9"}
    /\ watch \in BOOLEAN
    /\ ignoreErrors = FALSE
    /\ ignoreWarnings = FALSE
    /\ outdir = <<>>
    /\ RsLocals

\* the flags of `snapshots render`
InitRenders ==
    /\ cmd = "renders"
    /\ pc = "rr_start"
    /\ stencilFolder = <<>>
    /\ stencilFilename = <<>>
    /\ output = <<>>
    /\ snapshotID \in {"", "latest", "s9"}
    /\ watch = FALSE
    /\ ignoreErrors \in BOOLEAN
    /\ ignoreWarnings \in BOOLEAN
    /\ outdir \in {<<>>, <<"out">>}
    /\ RsLocals

----------------------------------------------------------------------------
(* the latest snapshot, as renderStencil and runRenders find it *)

\* client.Snapshots, must(err), sort.Sort, the empty check and
\* snapshotUID = snapshots[0].Uid; goOn is the step to the next statement
PickLatest(goOn) ==
    \E ok \in BOOLEAN, list \in SnapshotLists :
        IF ~ok
        THEN /\ PrintFatal("snapshots request failed")
             /\ UNCHANGED <<snapshots, renderUID, wpc>>
        ELSE /\ snapshots' = SortSnapshots(list)
             /\ IF Len(list) = 0
                THEN /\ PrintFatal("No snapshots found")
                     /\ UNCHANGED <<renderUID, wpc>>
                ELSE /\ renderUID' = SortSnapshots(list)[1].Uid
                     /\ goOn
                     /\ UNCHANGED fatalMsg

----------------------------------------------------------------------------
(* stencils render: runRenderStencil and renderStencil *)

\* the flag checks, filesToRender and outdir
RsCheckFlags ==
    /\ cmd = "render" /\ pc = "rs_flags"
    /\ stdout' = (output = <<>>)
    /\ IF formationName = ""
       THEN /\ PrintFatal("No formation provided")
            /\ UNCHANGED <<filesToRender, outdir, rsIdx>>
       ELSE IF stencilFilename = <<>> /\ stencilFolder = <<>>
       THEN /\ PrintFatal("No stencil file or folder provided")
            /\ UNCHANGED <<filesToRender, outdir, rsIdx>>
       ELSE IF stencilFolder # <<>> /\ stencilFilename # <<>>
       THEN /\ PrintFatal("Both --stencil-file and --stencil-folder provided")
            /\ UNCHANGED <<filesToRender, outdir, rsIdx>>
       ELSE IF watch /\ output = <<>>
       THEN /\ PrintFatal("Cannot use --watch without --output")
            /\ UNCHANGED <<filesToRender, outdir, rsIdx>>
       ELSE \E ok \in BOOLEAN, fileList \in FolderFiles :
              IF stencilFolder # <<>> /\ ~ok
              THEN /\ PrintFatal("Failed to fetch all files from folder")
                   /\ UNCHANGED <<filesToRender, outdir, rsIdx>>
              ELSE /\ filesToRender' =
                        IF stencilFolder # <<>>
                        THEN [i \in DOMAIN fileList |->
                                 Join(stencilFolder, <<fileList[i]>>)]
                        ELSE <<stencilFilename>>
                   /\ outdir' = IF output = <<>> THEN outdir
                                ELSE IF stencilFolder # <<>> THEN output
                                ELSE Dir(output)
                   /\ rsIdx' = 1
                   /\ pc' = "rs_loop"
                   /\ UNCHANGED fatalMsg
    /\ UNCHANGED <<cmd, out, rsFlags, output, call, renderUID, snapshots, callReqs,
                   renderReq, initialOut, lastWrite, addIdx, watched, events, wpc,
                   nonRsVars>>

\* fmt.Printf("Rendering %s to %s\n", file, output)
RenderingLine(file, path) == <<"Rendering", file, "to", path>>

\* one turn of `for _, stencil := range filesToRender`, up to the call of
\* renderStencil; after the loop, `if watch`
RsNextFile ==
    /\ cmd = "render" /\ pc = "rs_loop"
    /\ IF rsIdx > Len(filesToRender)
       THEN /\ pc' = IF watch THEN "rs_watcher" ELSE "done"
            /\ UNCHANGED <<output, call, callReqs, out>>
       ELSE LET stencil == filesToRender[rsIdx]
                file == Base(stencil)
                newOutput == IF stencilFolder # <<>> THEN Join(outdir, file)
                             ELSE output
            IN /\ output' = newOutput
               /\ out' = IF ~stdout THEN Append(out, RenderingLine(file, newOutput))
                         ELSE out
               /\ call' = [by |-> "main", stencil |-> stencil, output |-> newOutput]
               /\ callReqs' = 0
               /\ pc' = "rn_snapshot"
    /\ UNCHANGED <<cmd, fatalMsg, rsFlags, stdout, filesToRender, outdir, rsIdx,
                   renderUID, snapshots, renderReq, initialOut, lastWrite, addIdx,
                   watched, events, wpc, nonRsVars>>

\* renderStencil runs in the goroutine of its caller: the command itself for
\* the initial loop, the watcher goroutine for an event.  A printFatal of
\* either ends the process.
At(p) ==
    IF call.by = "main" THEN pc = p
    ELSE call.by = "watch" /\ wpc = p /\ pc = "rs_watching"
GoTo(p) ==
    IF call.by = "main" THEN pc' = p /\ UNCHANGED wpc
    ELSE wpc' = p /\ UNCHANGED pc

\* renderStencil, first part: fileExists and the snapshot
RenderStencilSnapshot ==
    /\ cmd = "render" /\ At("rn_snapshot")
    /\ \E does \in BOOLEAN :
         IF ~does
         THEN /\ PrintFatal("Cannot find file")
              /\ UNCHANGED <<snapshots, renderUID, wpc>>
         ELSE IF snapshotID = "" \/ snapshotID = "latest"
         THEN PickLatest(GoTo("rn_request"))
         ELSE /\ renderUID' = snapshotID
              /\ GoTo("rn_request")
              /\ UNCHANGED <<snapshots, fatalMsg>>
    /\ UNCHANGED <<cmd, out, rsFlags, stdout, output, filesToRender, outdir, rsIdx,
                   call, callReqs, renderReq, initialOut, lastWrite, addIdx,
                   watched, events, nonRsVars>>

\* renderStencil, second part: the formation and the stencil, the file and
\* the render request
RenderStencilRequest ==
    /\ cmd = "render" /\ At("rn_request")
    /\ \E formationsOk \in BOOLEAN, list \in RenderFormationLists, readOk \in BOOLEAN :
         LET found == FindStencil(list, formationName, Base(call.stencil), "", "")
         IN IF ~formationsOk
            THEN /\ PrintFatal("formations request failed")
                 /\ UNCHANGED <<callReqs, renderReq, wpc>>
            ELSE IF found.fatal # NoMsg
            THEN /\ PrintFatal(found.fatal)
                 /\ UNCHANGED <<callReqs, renderReq, wpc>>
            ELSE IF ~readOk
            THEN /\ PrintFatal("Failed to read file")
                 /\ UNCHANGED <<callReqs, renderReq, wpc>>
            ELSE /\ callReqs' = callReqs + 1
                 /\ renderReq' = [snapshot |-> renderUID, stencil |-> found.stencilUID]
                 /\ GoTo("rn_result")
                 /\ UNCHANGED fatalMsg
    /\ UNCHANGED <<cmd, out, rsFlags, stdout, output, filesToRender, outdir, rsIdx,
                   call, renderUID, snapshots, initialOut, lastWrite, addIdx,
                   watched, events, nonRsVars>>

\* the return of renderStencil, its locals gone: to the next file of the
\* initial loop, or to the select of the watcher goroutine
RenderStencilReturn ==
    /\ call' = NoCall
    /\ renderUID' = ""
    /\ snapshots' = <<>>
    /\ IF call.by = "main"
       THEN rsIdx' = rsIdx + 1 /\ pc' = "rs_loop" /\ UNCHANGED wpc
       ELSE rsIdx' = rsIdx /\ wpc' = "select" /\ UNCHANGED pc
    /\ UNCHANGED fatalMsg

\* fmt.Printf("%s---\n", v.Content)
ContentLine(stencilUID) == <<"Content", stencilUID, "---">>

\* renderStencil, third part: must(err) on the answer, the errors and the
\* warnings, and the rendered stencil written to output or printed
RenderStencilResult ==
    /\ cmd = "render" /\ At("rn_result")
    /\ renderReq' = NoReq
    /\ \E answer \in RenderAnswers, writeOk \in BOOLEAN :
         IF answer = "fail"
         THEN /\ PrintFatal("render request failed")
              /\ UNCHANGED <<call, rsIdx, renderUID, snapshots, initialOut,
                             lastWrite, out, wpc>>
         ELSE IF answer \in {"errors", "warnings", "empty"}
         THEN /\ RenderStencilReturn
              /\ UNCHANGED <<initialOut, lastWrite, out>>
         ELSE IF call.output = <<>>
         THEN /\ out' = Append(out, ContentLine(renderReq.stencil))
              /\ RenderStencilReturn
              /\ UNCHANGED <<initialOut, lastWrite>>
         ELSE IF ~writeOk
         THEN /\ PrintFatal("write failed")
              /\ UNCHANGED <<call, rsIdx, renderUID, snapshots, initialOut,
                             lastWrite, out, wpc>>
         ELSE /\ lastWrite' = call
              /\ initialOut' =
                   IF call.by = "main"
                   THEN initialOut \cup
                          {[stencil |-> call.stencil, output |-> call.output]}
                   ELSE initialOut
              /\ RenderStencilReturn
              /\ UNCHANGED out
    /\ UNCHANGED <<cmd, rsFlags, stdout, output, filesToRender, outdir, callReqs,
                   addIdx, watched, events, nonRsVars>>

\* fsnotify.NewWatcher, the start of the goroutine
RsNewWatcher ==
    /\ cmd = "render" /\ pc = "rs_watcher"
    /\ \E ok \in BOOLEAN :
         IF ok
         THEN /\ pc' = "rs_watching"
              /\ wpc' = "select"
              /\ addIdx' = 1
              /\ out' = Append(out, "Watching for changes...")
              /\ UNCHANGED fatalMsg
         ELSE /\ PrintFatal("Failed to setup a file watcher")
              /\ UNCHANGED <<addIdx, out, wpc>>
    /\ UNCHANGED <<cmd, rsFlags, stdout, output, filesToRender, outdir, rsIdx, call,
                   renderUID, snapshots, callReqs, renderReq, initialOut, lastWrite,
                   watched, events, nonRsVars>>

\* one turn of `for _, file := range filesToRender { watcher.Add(file) }`,
\* wherever the watcher goroutine is; after the loop the command waits on
\* done for ever
RsWatchAdd ==
    /\ cmd = "render" /\ pc = "rs_watching"
    /\ addIdx <= Len(filesToRender)
    /\ \E ok \in BOOLEAN :
         IF ok
         THEN /\ watched' = watched \cup {filesToRender[addIdx]}
              /\ addIdx' = addIdx + 1
              /\ UNCHANGED <<pc, fatalMsg>>
         ELSE /\ PrintFatal("Failed to add a watch")
              /\ UNCHANGED <<watched, addIdx>>
    /\ UNCHANGED <<cmd, out, rsFlags, stdout, output, filesToRender, outdir, rsIdx,
                   call, renderUID, snapshots, callReqs, renderReq, initialOut,
                   lastWrite, events, wpc, nonRsVars>>

\* the goroutine receives an event of a watched file: a write is rendered
\* to the file of the same name under outdir, anything else is dropped
RsWatchEvent ==
    /\ cmd = "render" /\ pc = "rs_watching" /\ wpc = "select"
    /\ events < MaxEvents
    /\ \E name \in watched, op \in {"write", "chmod"} :
         /\ events' = events + 1
         /\ IF op = "write"
            THEN LET changedFile == Base(name)
                     newOutput == Join(outdir, changedFile)
                 IN /\ out' = Append(out, RenderingLine(changedFile, newOutput))
                    /\ call' = [by |-> "watch", stencil |-> name,
                                output |-> newOutput]
                    /\ callReqs' = 0
                    /\ wpc' = "rn_snapshot"
            ELSE UNCHANGED <<call, callReqs, wpc, out>>
    /\ UNCHANGED <<cmd, pc, fatalMsg, rsFlags, stdout, output, filesToRender,
                   outdir, rsIdx, renderUID, snapshots, renderReq, initialOut,
                   lastWrite, addIdx, watched, nonRsVars>>

\* the goroutine receives from watcher.Errors
RsWatchError ==
    /\ cmd = "render" /\ pc = "rs_watching" /\ wpc = "select"
    /\ PrintFatal("Error during file change event")
    /\ UNCHANGED <<cmd, out, rsVars, nonRsVars>>

RenderNext ==
    \/ RsCheckFlags
    \/ RsNextFile
    \/ RenderStencilSnapshot
    \/ RenderStencilRequest
    \/ RenderStencilResult
    \/ RsNewWatcher
    \/ RsWatchAdd
    \/ RsWatchEvent
    \/ RsWatchError

----------------------------------------------------------------------------
(* snapshots render: runRenders *)

\* snapshotUID := c.String("snapshot") and `if snapshotUID == "latest"`
RrSnapshot ==
    /\ cmd = "renders" /\ pc = "rr_snapshot"
    /\ IF snapshotID = "latest"
       THEN PickLatest(pc' = "rr_render" /\ UNCHANGED wpc)
       ELSE /\ renderUID' = snapshotID
            /\ pc' = "rr_render"
            /\ UNCHANGED <<snapshots, fatalMsg, wpc>>
    /\ UNCHANGED <<cmd, out, rsFlags, stdout, output, filesToRender, outdir, rsIdx,
                   call, callReqs, renderReq, initialOut, lastWrite, addIdx,
                   watched, events, nonRsVars>>

\* client.RenderSnapshot
RrRender ==
    /\ cmd = "renders" /\ pc = "rr_render"
    /\ callReqs' = callReqs + 1
    /\ renderReq' = [snapshot |-> renderUID, stencil |-> ""]
    /\ pc' = "rr_result"
    /\ UNCHANGED <<cmd, fatalMsg, out, rsFlags, stdout, output, filesToRender,
                   outdir, rsIdx, call, renderUID, snapshots, initialOut,
                   lastWrite, addIdx, watched, events, wpc, nonRsVars>>

\* filepath.Join(outdir, fmt.Sprintf("%03d_%s", idx+1, v.Filename)) of the
\* first rendered stencil
RendersFilename == Join(outdir, <<"001_a.yml">>)

\* must(err) on the answer; the errors and the warnings unless ignored; the
\* rendered stencils written under outdir, or printed when there is none
RrResult ==
    /\ cmd = "renders" /\ pc = "rr_result"
    /\ renderReq' = NoReq
    /\ \E answer \in RendersAnswers, writeOk \in BOOLEAN :
         IF answer.fail
         THEN /\ PrintFatal("render request failed")
              /\ UNCHANGED <<out, lastWrite>>
         ELSE IF \/ ~ignoreErrors /\ answer.errors
                 \/ ~ignoreWarnings /\ answer.warnings
         THEN /\ pc' = "done"
              /\ UNCHANGED <<out, lastWrite, fatalMsg>>
         ELSE IF answer.stencils = 0
         THEN /\ pc' = "done"
              /\ UNCHANGED <<out, lastWrite, fatalMsg>>
         ELSE IF outdir = <<>>
         THEN /\ out' = Append(out, ContentLine(RendersFilename))
              /\ pc' = "done"
              /\ UNCHANGED <<lastWrite, fatalMsg>>
         ELSE IF ~writeOk
         THEN /\ PrintFatal("write failed")
              /\ UNCHANGED <<out, lastWrite>>
         ELSE /\ lastWrite' = [by |-> "renders", stencil |-> <<"a.yml">>,
                               output |-> RendersFilename]
              /\ pc' = "done"
              /\ UNCHANGED <<out, fatalMsg>>
    /\ UNCHANGED <<cmd, rsFlags, stdout, output, filesToRender, outdir, rsIdx, call,
                   renderUID, snapshots, callReqs, initialOut, addIdx, watched,
                   events, wpc, nonRsVars>>

RendersNext ==
    \/ RrSnapshot
    \/ RrRender
    \/ RrResult

----------------------------------------------------------------------------
(* The program *)

Init ==
    /\ fatalMsg = NoMsg
    /\ out = <<>>
    /\ \/ InitStacks /\ IdleFm /\ IdleFf /\ IdleAd /\ IdleDp /\ IdleSsl /\ IdleSt /\ IdleRs
       \/ InitFetch /\ IdleLs /\ IdleAd /\ IdleDp /\ IdleSsl /\ CallerSt(TRUE) /\ IdleRs
       \/ InitAdd /\ IdleLs /\ IdleFf /\ IdleDp /\ IdleSsl /\ CallerSt(FALSE) /\ IdleRs
       \/ InitDeploy /\ IdleLs /\ IdleFf /\ IdleAd /\ IdleSsl /\ CallerSt(TRUE) /\ IdleRs
       \/ InitSsl /\ IdleLs /\ IdleFm /\ IdleFf /\ IdleAd /\ IdleDp /\ CallerSt(FALSE) /\ IdleRs
       \/ InitStack /\ IdleLs /\ IdleFm /\ IdleFf /\ IdleAd /\ IdleDp /\ IdleSsl /\ IdleRs
       \/ InitRender /\ IdleLs /\ IdleFf /\ IdleAd /\ IdleDp /\ IdleSsl /\ CallerSt(FALSE)
       \/ InitRenders /\ IdleLs /\ IdleFm /\ IdleFf /\ IdleAd /\ IdleDp /\ IdleSsl /\ CallerSt(TRUE)

Next ==
    \/ StacksNext
    \/ FetchNext
    \/ AddNext
    \/ DeployNext
    \/ SslNext
    \/ StackNext
    \/ RenderNext
    \/ RendersNext

Spec == Init /\ [][Next]_vars

----------------------------------------------------------------------------
(* Claims: stacks list *)

Count(seq, x) == Cardinality({i \in DOMAIN seq : seq[i] = x})

NamedArgs == {i \in DOMAIN names : names[i] # ""}

ErrSent == \E i \in DOMAIN gor : gor[i] = "sent_err"

\* C1: with N >= 1 names and every fetch succeeding, the join loop never
\* waits on two empty channels once all goroutines have sent, it ends after
\* exactly N receives, and the list handed to printStackList holds exactly
\* the fetched stack of every non-empty name, whatever the completion order.
C1_JoinCollectsEveryStack ==
    (cmd = "stacks" /\ Len(names) >= 1 /\ ~ErrSent) =>
        /\ (pc = "ls_join" /\ \A i \in DOMAIN gor : gor[i] # "running")
              => (recvd < Len(names) /\ stackch # <<>>)
        /\ pc # "fatal"
        /\ pc \in {"ls_print", "done"} =>
              /\ recvd = Len(names)
              /\ Len(stacks) = Cardinality(NamedArgs)
              /\ \A s \in Range(AllStacks) \cup {ZeroStack} :
                    Count(stacks, s) =
                        Cardinality({i \in NamedArgs : StackInfo(names[i]) = s})

\* C1 witness: three names, one empty, the later name's fetch finished first
C1_Witness ==
    /\ cmd = "stacks" /\ pc = "ls_print"
    /\ names = <<"n1", "", "n2">>
    /\ stacks = <<StackAY, StackAx>>

\* C2: once a fetch has returned an error, printStackList is never called
\* and no row is printed; the main goroutine is still in the fan-out or join
\* loop or has ended in printFatal; while it waits in the join loop the error
\* is in errch, so the select can always take it and the loop, which cannot
\* reach its N-th receive without it, ends only there; the message of
\* printFatal is the first error that was sent on errch.
C2_FirstErrorIsFatal ==
    (cmd = "stacks" /\ ErrSent) =>
        /\ pc \in {"ls_spawn", "ls_join", "fatal"}
        /\ rows = <<>>
        /\ pc = "ls_join" => (errch # <<>> /\ recvd < Len(names))
        /\ pc = "fatal" => fatalMsg = errLog[1]

\* C2 witness: two fetches failed, a stack was received before the error,
\* and the run ended with the error that was sent first
C2_Witness ==
    /\ cmd = "stacks" /\ pc = "fatal"
    /\ Len(errLog) = 2 /\ errLog[1] # errLog[2]
    /\ Len(stacks) = 1
    /\ fatalMsg = errLog[1]

\* lower-cased (account, name) key order
KeyLess(a, b) ==
    \/ StrLess(ToLower(a.AccountName), ToLower(b.AccountName))
    \/ /\ ToLower(a.AccountName) = ToLower(b.AccountName)
       /\ StrLess(ToLower(a.Name), ToLower(b.Name))

\* C4: the rows printStackList emits are ordered by account name and then
\* by stack name, both case-insensitively.
C4_RowsSortedByAccountThenName ==
    (cmd = "stacks" /\ pc = "done") =>
        \A i, j \in DOMAIN rows : i < j => ~KeyLess(rows[j], rows[i])

----------------------------------------------------------------------------
(* Claims: formations fetch *)

StencilsOf(f) == Range(f.val.Stencils)

\* C5: when none of the formation's stencil files exists in the output
\* directory, a completed fetch has written every stencil's body to the file
\* of its name.
C5_FetchWritesEveryStencil ==
    (/\ cmd = "fetch" /\ pc = "done"
     /\ \A st \in StencilsOf(formation) : fs0[st.Filename] = NoFile)
        => \A st \in StencilsOf(formation) : fs[st.Filename] = st.Body

LastAsk(a) == a[Len(a)]

\* C6: a step of fetch changes an existing file only under --overwrite or
\* after the user confirmed the question for that file; a declined question
\* changes no file, does not end the run and moves on to the next stencil;
\* fetch completes only after every stencil has been handled.
C6_FetchStep ==
    cmd = "fetch" =>
        /\ \A f \in Files :
              (fs[f] # NoFile /\ fs'[f] # fs[f]) =>
                  \/ overwrite
                  \/ /\ asks' # asks
                     /\ LastAsk(asks').file = f
                     /\ LastAsk(asks').yes
        /\ (asks' # asks /\ ~LastAsk(asks').yes) =>
              /\ fs' = fs
              /\ pc' = "ff_loop"
              /\ ffIdx' = ffIdx + 1
        /\ pc' = "done" => ffIdx' = Len(formation'.val.Stencils)

C6_ExistingFileNeedsConsent == [][C6_FetchStep]_vars

\* C6 witness: the question for a.yml was declined and the file kept, the
\* one for b.yml was confirmed and the file replaced, and fetch completed
C6_Witness ==
    /\ cmd = "fetch" /\ pc = "done" /\ ~overwrite
    /\ asks = <<[file |-> <<"a.yml">>, yes |-> FALSE], [file |-> <<"b.yml">>, yes |-> TRUE]>>
    /\ fs[<<"a.yml">>] = "old"
    /\ fs[<<"b.yml">>] = "B1"

----------------------------------------------------------------------------
(* Claims: stencils add *)

Ended == pc \in {"done", "fatal"}

\* the formation of the given name exists on the server
FormationExists == \E i \in DOMAIN server : server[i].Name = formationName

\* the name under which the new stencil would be stored is already the
\* Filename of a stencil of a formation of the given name
StoredNameTaken ==
    /\ stencilFile # <<>>
    /\ SameNameFound(server, formationName, Base(stencilFile))

\* C7: stencils add run with the declared flags only, an existing formation
\* and a readable file that is not yet a stencil of it, sends exactly one
\* AddStencils request and, when the run completes, has reported the stencil
\* as added.
C7_AddSendsOneRequest ==
    (/\ cmd = "add" /\ Ended
     /\ btrUuid = ""
     /\ FormationExists
     /\ stencilFile # <<>> /\ readable
     /\ ~StoredNameTaken
     /\ fatalMsg \notin StackFatal \cup {"formations request failed",
                                          "add stencils request failed"})
        => /\ Len(addCalls) = 1
           /\ pc = "done"
           /\ out # <<>>
           /\ out[Len(out)] = "Stencil was added to formation"

\* C8: stencils add ends in a fatal error without an AddStencils request
\* whenever the formation already has a stencil whose Filename is the base
\* name of the --stencil path.
C8_AddRefusesStoredName ==
    (cmd = "add" /\ Ended /\ StoredNameTaken)
        => (pc = "fatal" /\ addCalls = <<>>)

\* C8 witness: formation web has the stencil a.yml, --stencil dir/a.yml names
\* a readable file, and the run has ended in printFatal
C8_Witness ==
    /\ cmd = "add" /\ pc = "fatal"
    /\ formationName = "web" /\ stencilFile = <<"dir", "a.yml">> /\ readable
    /\ StoredNameTaken
    /\ fatalMsg = "No base template uuid provided"
    /\ addCalls = <<>>

----------------------------------------------------------------------------
(* Claims: formations deploy *)

\* C3: once workflow.Run has returned, the run ends in printFatal with the
\* run error when it is non-nil, else with the step error when that is
\* non-nil; deploy returns normally only after Run returned two nil errors.
C3_DeployReportsRunThenStep ==
    cmd = "deploy" =>
        /\ runState = "returned" =>
              /\ runErrors # NoErr => (pc = "fatal" /\ fatalMsg = runErrors)
              /\ (runErrors = NoErr /\ stepErrors # NoErr)
                    => (pc = "fatal" /\ fatalMsg = stepErrors)
              /\ (runErrors = NoErr /\ stepErrors = NoErr) => pc = "done"
        /\ pc = "done" =>
              (runState = "returned" /\ runErrors = NoErr /\ stepErrors = NoErr)

\* C3 witness: Run returned both errors and the run error was reported
C3_Witness ==
    /\ cmd = "deploy" /\ runState = "returned"
    /\ runErrors = "run error" /\ stepErrors = "step error"
    /\ pc = "fatal" /\ fatalMsg = "run error"

----------------------------------------------------------------------------
(* Claims: stacks ssl add *)

\* C9: a create request is sent only for a stack without certificates, an
\* update request only for a stack with certificates under --overwrite and
\* then for the first listed one; with certificates and no --overwrite the
\* run ends in printFatal and no request is sent.
C9_CreateOrUpdate ==
    cmd = "ssl" =>
        /\ Len(sslCalls) <= 1
        /\ \A k \in DOMAIN sslCalls :
              /\ sslCalls[k].op \in {"create", "update"}
              /\ sslCalls[k].op = "create" => certs = <<>>
              /\ sslCalls[k].op = "update" =>
                    /\ certs # <<>>
                    /\ sslOverwrite
                    /\ sslCalls[k].uuid = certs[1]
        /\ (certs # <<>> /\ ~sslOverwrite) =>
              /\ sslCalls = <<>>
              /\ pc # "done"
              /\ pc \notin StackPcs \cup {"ssl_list"} => pc = "fatal"

\* C9 witness: two certificates, --overwrite, the first one was updated
C9_Witness ==
    /\ cmd = "ssl" /\ pc = "done"
    /\ Len(certs) = 2 /\ sslOverwrite
    /\ Len(sslCalls) = 1
    /\ sslCalls[1].op = "update" /\ sslCalls[1].uuid = certs[1]

\* the certificate input the claim calls invalid
InvalidCertInput ==
    \/ sslType \notin {LetsEncryptSslCertificateType, ManualSslCertificateType}
    \/ sslType = LetsEncryptSslCertificateType /\ domains = ""
    \/ sslType = ManualSslCertificateType /\ (certFile # "ok" \/ keyFile # "ok")

\* C10: with invalid certificate input no create or update request is sent
\* and the run does not complete; type manual with readable --cert and
\* --key and no --intermediate is not rejected by the generate step and
\* yields a certificate without an intermediate.
C10_InvalidInputSendsNothing ==
    cmd = "ssl" =>
        /\ InvalidCertInput =>
              /\ sslCalls = <<>>
              /\ pc \notin {"ssl_send", "done"}
        /\ (/\ sslType = ManualSslCertificateType
            /\ certFile = "ok" /\ keyFile = "ok" /\ intermediateFile = ""
            /\ pc = "fatal")
              => fatalMsg \in StackFatal \cup
                              {"list certificates request failed",
                               "SSL certificate already exists for this application",
                               "certificate request failed"}
        /\ \A k \in DOMAIN sslCalls :
              intermediateFile = "" =>
                  sslCalls[k].cert.IntermediateCertificate = NilString

\* C10 witness: type manual, a readable certificate and an unreadable key
\* made the generate step end the run
C10_Witness ==
    /\ cmd = "ssl" /\ pc = "fatal"
    /\ sslType = ManualSslCertificateType
    /\ certFile = "ok" /\ keyFile = "bad"
    /\ sslCertificateOperation = "create"
    /\ fatalMsg = "read error"

\* C14: an error of any step of the deploy path ends the run in printFatal
\* before the next step: a failed formations request sends no workflow
\* request, a failed workflow request builds no options and loads nothing,
\* and a workflow whose load returned an error is never run.
C14_FailedLoadIsNeverRun ==
    cmd = "deploy" =>
        /\ fatalMsg = "formations request failed" => workflowReq = <<>>
        /\ fatalMsg = "workflow request failed" =>
              (concurrency = NoOptions /\ runState = "no")
        /\ loadFailed => runState = "no"

\* C15: the concurrency limit handed to the workflow engine is at least 1
\* for every number of CPUs >= 1.
C15_ConcurrencyAtLeastOne ==
    (cmd = "deploy" /\ numCPU >= 1 /\ concurrency # NoOptions) => concurrency >= 1

\* C13: the stack argument is the --stack value when there is one and the
\* .cx.yml value otherwise; with a stack argument neither cxstack nor the git
\* remote is consulted; the name is matched first among the stacks whose
\* environment equals --environment ignoring case, and among the stacks whose
\* environment starts with it only after that first match failed.
C13_StackPrecedence ==
    cmd = "stack" =>
        /\ pc # "st_start" =>
              stackArg = (IF cliStack # <<>> THEN cliStack ELSE yamlStack)
        /\ (cliStack # <<>> \/ yamlStack # <<>>) => otherLookups = <<>>
        /\ listCalls \in {<<>>, <<"exact">>, <<"exact", "fuzzy">>}
        /\ listCalls = <<"exact", "fuzzy">> => exactFind = "err"
        /\ exactFind # "none" => listCalls[1] = "exact"
        /\ (pc = "done" /\ stackArg # <<>>) =>
              /\ ~flagStack.nil
              /\ \E i \in DOMAIN account : account[i] = flagStack.val
              /\ IF exactFind = "ok"
                 THEN /\ listCalls = <<"exact">>
                      /\ \/ cliEnvironment = <<>>
                         \/ ToLower(flagStack.val.Environment) = ToLower(cliEnvironment)
                 ELSE /\ listCalls = <<"exact", "fuzzy">>
                      /\ HasPrefix(ToLower(flagStack.val.Environment),
                                   ToLower(cliEnvironment))

\* C13 witness: --stack and .cx.yml name different stacks, the exact match
\* failed and the stack was found among those whose environment only starts
\* with --environment.
C13_Witness ==
    /\ cmd = "stack" /\ pc = "done"
    /\ cliStack # <<>> /\ yamlStack # <<>> /\ cliStack # yamlStack
    /\ cxstack # "" /\ cliEnvironment # <<>>
    /\ listCalls = <<"exact", "fuzzy">>
    /\ ~flagStack.nil
    /\ ToLower(flagStack.val.Environment) # ToLower(cliEnvironment)

\* C11: with --watch and --output, a write event on a watched stencil file
\* renders the file to the path its initial render was written to.
C11_WatchRendersToInitialPath ==
    (cmd = "render" /\ lastWrite.by = "watch"
       /\ \E r \in initialOut : r.stencil = lastWrite.stencil) =>
        \E r \in initialOut :
            r.stencil = lastWrite.stencil /\ r.output = lastWrite.output

\* a snapshot of the list whose TriggeredAt is the maximum over the list
IsLatest(uid, list) ==
    \E i \in DOMAIN list :
        /\ list[i].Uid = uid
        /\ \A j \in DOMAIN list : list[j].TriggeredAt <= list[i].TriggeredAt

\* C12: with the snapshot given as "latest" (both commands) or omitted
\* (stencils render), a render request names a snapshot whose TriggeredAt is
\* the maximum over the snapshots of the stack, and with no snapshot the
\* command fails before it sends a render request.
C12_RendersLatestSnapshot ==
    (\/ cmd = "render" /\ snapshotID \in {"", "latest"}
     \/ cmd = "renders" /\ snapshotID = "latest") =>
        /\ renderReq # NoReq => IsLatest(renderReq.snapshot, snapshots)
        /\ fatalMsg = "No snapshots found" => (callReqs = 0 /\ renderReq = NoReq)

====
